---- MODULE Spec2Model ----
(***************************************************************************)
(* Newton-Raphson power flow driver (pandapower/pypower/newtonpf.py) and   *)
(* the Jacobian builders (pandapower/pf/create_jacobian.py).               *)
(*                                                                         *)
(* Numeric quantities are abstracted: a bus voltage vector is an iterate   *)
(* number (0 is the initial guess V0), a mismatch vector F is a sequence   *)
(* of entries [blk, val] that keeps the block each entry belongs to and a  *)
(* small integer value, and a matrix is its shape and block layout.        *)
(* Control flow, array lengths, offsets, block order and raised exceptions *)
(* are modelled as the code computes them.                                 *)
(***************************************************************************)
EXTENDS Integers, Sequences, FiniteSets, TLC

VARIABLES
    pc,         \* position in newtonpf / in a direct builder call
    options,    \* the options dictionary
    args,       \* ref, pv, pq as passed by the caller
    ppci,       \* device and branch data of the case
    i,          \* iteration counter
    ref, pv, pq,\* bus index arrays after the distributed-slack reclassification
    j,          \* offsets j0 .. j7 into the state vector
    F,          \* most recently evaluated mismatch vector
    Yused,      \* admittance the most recent mismatch evaluation multiplied V by
    converged,  \* convergence flag
    J,          \* Jacobian shape, NoJ while J is None
    V,          \* voltage iterate, 0 is V0
    Vm_it,      \* voltage trace, <<>> while Vm_it is None
    q_svc,      \* whether the local q_svc is bound
    written,    \* device records written back to ppci
    err,        \* exception raised, "none" otherwise
    jcall       \* a direct call of a Jacobian builder: its arguments and result

vars == <<pc, options, args, ppci, i, ref, pv, pq, j, F, Yused, converged, J, V,
          Vm_it, q_svc, written, err, jcall>>

(***************************************************************************)
(* Bounds of the model                                                     *)
(***************************************************************************)
NBus == 3       \* buses of the network
MaxIt == 2      \* largest max_iteration
MaxTol == 2     \* largest tolerance; mismatch entries are drawn from FVals
MaxSvc == 1     \* largest number of SVC buses
MaxTcsc == 1    \* largest number of active TCSC branches
NBranch == 2    \* branches of the network
MaxControl == 2 \* largest number of transformer-tap control variables
MaxDim == 2     \* largest dimension of a Jacobian given entry by entry

(***************************************************************************)
(* Helpers                                                                 *)
(***************************************************************************)
Range(a, b) == [k \in 1..(b - a + 1) |-> a + k - 1]

Tag(blk, n) == [k \in 1..n |-> blk]

Abs(x) == IF x < 0 THEN -x ELSE x

Elems(s) == {s[k] : k \in 1..Len(s)}

RECURSIVE MaxAbs(_)
MaxAbs(s) == IF Len(s) = 1 THEN Abs(s[1].val)
             ELSE LET m == MaxAbs(Tail(s)) IN
                  IF Abs(s[1].val) > m THEN Abs(s[1].val) ELSE m

CountBlk(s, blk) == Cardinality({k \in 1..Len(s) : s[k].blk = blk})

CountTrue(s) == Cardinality({k \in 1..Len(s) : s[k]})

NoJ == [rows |-> -1, cols |-> -1]

NoCall == [fn |-> "none"]

(***************************************************************************)
(* Inputs                                                                  *)
(***************************************************************************)
\* Bus classifications as index arrays. Bus numbering is immaterial, so the
\* reference buses come first, then PV, then PQ; an overlap lists one bus of
\* another class a second time in pq.
Overlaps == {"none", "ref_in_pq", "pv_in_pq"}

Classification(nr, nv, nq, ov) ==
    [ref |-> Range(1, nr),
     pv  |-> Range(nr + 1, nr + nv),
     pq  |-> Range(nr + nv + 1, nr + nv + nq)
             \o (IF ov = "ref_in_pq" THEN <<1>>
                 ELSE IF ov = "pv_in_pq" THEN <<nr + 1>> ELSE <<>>)]

\* the classifications of a network of NBus buses, malformed ones included
Classifications ==
    {Classification(t[1], t[2], NBus - t[1] - t[2], t[3]) :
        t \in {t \in (0..NBus) \X (0..NBus) \X Overlaps :
                /\ t[1] + t[2] <= NBus
                /\ t[3] = "ref_in_pq" => t[1] >= 1
                /\ t[3] = "pv_in_pq" => t[2] >= 1}}

\* the classifications of the networks of up to NBus buses that satisfy the
\* data model (every bus in exactly one set, reference set non-empty) and
\* have a bus that is not a reference bus
ValidClassifications ==
    {Classification(t[1], t[2], t[3], "none") :
        t \in {t \in (1..NBus) \X (0..NBus) \X (0..NBus) :
                t[1] + t[2] + t[3] <= NBus /\ t[2] + t[3] >= 1}}

\* every bus in exactly one set, reference set non-empty
WellFormed(a) ==
    /\ Len(a.ref) >= 1
    /\ \A b \in Elems(a.ref) \cup Elems(a.pv) \cup Elems(a.pq) :
        Cardinality({k \in 1..Len(a.ref) : a.ref[k] = b})
        + Cardinality({k \in 1..Len(a.pv) : a.pv[k] = b})
        + Cardinality({k \in 1..Len(a.pq) : a.pq[k] = b}) = 1

\* numba only selects the Jacobian builder; it is drawn where a builder is called
OptionSets ==
    [tolerance_mva : 1..MaxTol,
     max_iteration : 0..MaxIt,
     algorithm : {"nr", "iwamoto_nr"},
     distributed_slack : BOOLEAN,
     v_debug : BOOLEAN,
     tdpf : BOOLEAN]

\* svc_buses: the buses flagged SVC; tcsc_controllable: one flag per active
\* TCSC branch (controllable ones first); tdpf_lines: the branches flagged TDPF
Cases ==
    {[svc_buses |-> Range(NBus - ns + 1, NBus),
      tcsc_controllable |-> [k \in 1..nt |-> k <= nc],
      nbranch |-> NBranch,
      tdpf_lines |-> Range(1, nl)] :
        <<ns, nt, nc, nl>> \in
            {t \in (0..MaxSvc) \X (0..MaxTcsc) \X (0..MaxTcsc) \X (0..NBranch) :
                t[3] <= t[2]}}

(***************************************************************************)
(* newtonpf: pure parts                                                    *)
(***************************************************************************)
\* lines 91-93: under distributed slack every reference bus but the first
\* becomes a PV bus
Reclassify(dist_slack, a) ==
    IF dist_slack /\ Len(a.ref) > 1
    THEN [ref |-> <<a.ref[1]>>, pv |-> Tail(a.ref) \o a.pv, pq |-> a.pq]
    ELSE [ref |-> a.ref, pv |-> a.pv, pq |-> a.pq]

\* lines 142-144
num_svc_controllable(case) == Len(case.svc_buses)

num_tcsc_controllable(case) == CountTrue(case.tcsc_controllable)

num_facts_controllable(case) == num_svc_controllable(case) + num_tcsc_controllable(case)

\* lines 154-166
Offsets(dist_slack, a, case) ==
    LET nref == Len(a.ref)
        npv == Len(a.pv)
        npq == Len(a.pq)
        j1 == IF dist_slack THEN nref ELSE 0
        j2 == j1 + npv
        j4 == j2 + npq
        j6 == j4 + npq
        j6a == j6 + num_svc_controllable(case)
        j6b == j6a + num_tcsc_controllable(case)
    IN [j0 |-> 0, j1 |-> j1, j2 |-> j2, j3 |-> j2, j4 |-> j4, j5 |-> j4,
        j6 |-> j6, j6a |-> j6a, j6b |-> j6b, j7 |-> j6b]

\* lines 282-285: the device a state slot s (1-based, j6 < s <= j6b) belongs to
StateSlot(off, s) ==
    IF off.j6 < s /\ s <= off.j6a THEN "svc"
    ELSE IF off.j6a < s /\ s <= off.j6b THEN "tcsc"
    ELSE "bus"

\* _evaluate_Fx: the blocks of F in order, and the admittance V is multiplied
\* by. tcsc_tb has one entry per active TCSC branch, as tcsc_controllable has.
evaluate_Fx(dist_slack, a, case) ==
    LET tcsc_tb == case.tcsc_controllable
        Fbus == IF dist_slack
                THEN [Y |-> "Ybus",
                      blocks |-> Tag("P_ref", Len(a.ref)) \o Tag("P_pv", Len(a.pv))
                                 \o Tag("P_pq", Len(a.pq)) \o Tag("Q_pq", Len(a.pq))]
                ELSE IF Len(tcsc_tb) > 0
                THEN [Y |-> "Ybus+Ybus_tcsc",
                      blocks |-> Tag("P_pv", Len(a.pv)) \o Tag("P_pq", Len(a.pq))
                                 \o Tag("Q_pq", Len(a.pq))
                                 \o (IF CountTrue(case.tcsc_controllable) > 0
                                     THEN Tag("tcsc", CountTrue(case.tcsc_controllable))
                                     ELSE <<>>)]
                ELSE [Y |-> "Ybus",
                      blocks |-> Tag("P_pv", Len(a.pv)) \o Tag("P_pq", Len(a.pq))
                                 \o Tag("Q_pq", Len(a.pq))]
    IN [Y |-> Fbus.Y,
        blocks |-> Fbus.blocks
                   \o (IF Len(case.svc_buses) > 0
                       THEN Tag("svc", Len(case.svc_buses))
                       ELSE <<>>)]

\* lines 227-229: F_t = zeros(len(branch)), appended when tdpf is on
ThermalBlock(tdpf, case) == IF tdpf THEN Tag("T", case.nbranch) ELSE <<>>

\* line 287, T + dx[j7:][tdpf_lines]: the positions after j7 of the step
\* vector that are read as temperature steps
TemperatureSlots(case) == Elems(case.tdpf_lines)

\* the mismatch values: zero but for one entry, the first or the last one that
\* _evaluate_Fx computes, whose value lies below, at or above the tolerance
FVals == {-MaxTol, MaxTol - 1} \ {0}

HotPositions(n) == {1, n} \cap 1..n

Mismatch(blocks, hot, v) ==
    [k \in 1..Len(blocks) |-> [blk |-> blocks[k], val |-> IF k = hot THEN v ELSE 0]]

check_for_convergence_le(Fx, tol) == MaxAbs(Fx) <= tol

\* _check_for_convergence: infinity norm of F strictly below tol
check_for_convergence(Fx, tol) == MaxAbs(Fx) < tol

\* line 249 passes this many positional arguments to create_jacobian_matrix
NewtonpfCallArgs == 14

\* create_jacobian_matrix declares this many parameters, none with a default
CreateJacobianMatrixParams == 16

(***************************************************************************)
(* create_jacobian.py: the shape and block layout of the matrices built    *)
(***************************************************************************)
ErrJ == [rows |-> -2, cols |-> -2]

Sum2(s) == IF Len(s) = 0 THEN 0 ELSE IF Len(s) = 1 THEN s[1]
           ELSE IF Len(s) = 2 THEN s[1] + s[2] ELSE s[1] + s[2] + s[3]

\* _create_J_with_numba: Jp has one entry per row plus one, and the matrix is
\* built from (Jx, Jj, Jp) with shape (dimJ, dimJ); scipy raises ValueError
\* when the index pointer does not have dimJ + 1 entries
create_J_with_numba(refpvpq, pvpq, q, nref, npv, npq, dist_slack) ==
    LET nJp == IF dist_slack THEN Len(refpvpq) + Len(q) + 1
               ELSE Len(pvpq) + Len(q) + 1
        dimJ == IF dist_slack THEN nref + npv + npq + npq ELSE npv + npq + npq
    IN IF nJp = dimJ + 1
       THEN [rows |-> dimJ, cols |-> dimJ,
             row_blocks |-> <<nJp - 1 - Len(q), Len(q)>>]
       ELSE ErrJ

create_J_without_numba_allref(r, pvpq, q, dist_slack) ==
    LET rows_pvpq == IF dist_slack THEN r \o pvpq ELSE pvpq
        cols_pvpq == IF dist_slack THEN r \o pvpq ELSE pvpq
        widths == IF dist_slack THEN <<1, Len(cols_pvpq), Len(q)>>
                  ELSE <<Len(cols_pvpq), Len(q)>>
    IN IF Len(q) > 0 \/ dist_slack
       THEN [rows |-> Len(rows_pvpq) + Len(q), cols |-> Sum2(widths),
             row_blocks |-> <<Len(rows_pvpq), Len(q)>>, col_blocks |-> widths]
       ELSE [rows |-> Len(rows_pvpq), cols |-> Sum2(widths),
             row_blocks |-> <<Len(rows_pvpq)>>, col_blocks |-> widths]

\* _create_J_without_numba: J11, J12 over rows_pvpq, J21, J22 over pq, and under
\* distributed slack the column J10, J20 of slack weights in front
create_J_without_numba(r, pvpq, q, dist_slack) ==
    LET rows_pvpq == IF dist_slack THEN r \o pvpq ELSE pvpq
        cols_pvpq == IF dist_slack THEN SubSeq(r, 2, Len(r)) \o pvpq ELSE pvpq
        widths == IF dist_slack THEN <<1, Len(cols_pvpq), Len(q)>>
                  ELSE <<Len(cols_pvpq), Len(q)>>
    IN IF Len(q) > 0 \/ dist_slack
       THEN [rows |-> Len(rows_pvpq) + Len(q), cols |-> Sum2(widths),
             row_blocks |-> <<Len(rows_pvpq), Len(q)>>, col_blocks |-> widths]
       ELSE [rows |-> Len(rows_pvpq), cols |-> Sum2(widths),
             row_blocks |-> <<Len(rows_pvpq)>>, col_blocks |-> widths]

\* K_J * J * K_J.T with K_J = vstack([eye(n), zeros(k, n)]): k zero rows and
\* zero columns after the n-by-n block (create_jacobian.py 100-101,
\* newtonpf.py 259-261)
ExtendJ(Jm, k) ==
    IF Jm = ErrJ THEN ErrJ
    ELSE [rows |-> Jm.rows + k, cols |-> Jm.cols + k]

\* create_jacobian_matrix
create_jacobian_matrix(a, numba, dist_slack, trafo_taps, x_control) ==
    LET Jb == IF numba
              THEN create_J_with_numba(a.ref \o a.pv \o a.pq, a.pv \o a.pq, a.pq,
                                       Len(a.ref), Len(a.pv), Len(a.pq), dist_slack)
              ELSE create_J_without_numba(a.ref, a.pv \o a.pq, a.pq, dist_slack)
    IN IF trafo_taps THEN ExtendJ(Jb, x_control)
       ELSE IF Jb = ErrJ THEN ErrJ ELSE [rows |-> Jb.rows, cols |-> Jb.cols]

(***************************************************************************)
(* Padding of a Jacobian, entry by entry. A matrix is its shape and the    *)
(* function e from <<row, column>> (1-based) to the entry.                 *)
(***************************************************************************)
\* the values a Jacobian entry is drawn from
EntryVals == {-1, 0, 1}

\* the n-by-n Jacobians, 1 <= n <= MaxDim
Matrices ==
    UNION {{[rows |-> n, cols |-> n, e |-> f] :
                f \in [(1..n) \X (1..n) -> EntryVals]} : n \in 1..MaxDim}

\* scipy.sparse.eye(n)
eye(n) ==
    [rows |-> n, cols |-> n,
     e |-> [x \in (1..n) \X (1..n) |-> IF x[1] = x[2] THEN 1 ELSE 0]]

\* csr_matrix((nr, nc)): the matrix without stored entries
sparse(nr, nc) ==
    [rows |-> nr, cols |-> nc, e |-> [x \in (1..nr) \X (1..nc) |-> 0]]

\* scipy.sparse.vstack([A, B])
vstack(A, B) ==
    [rows |-> A.rows + B.rows, cols |-> A.cols,
     e |-> [x \in (1..(A.rows + B.rows)) \X (1..A.cols) |->
               IF x[1] <= A.rows THEN A.e[x] ELSE B.e[<<x[1] - A.rows, x[2]>>]]]

\* A.T
Transpose(A) ==
    [rows |-> A.cols, cols |-> A.rows,
     e |-> [x \in (1..A.cols) \X (1..A.rows) |-> A.e[<<x[2], x[1]>>]]]

RECURSIVE DotSum(_, _, _, _, _)
DotSum(A, B, r, c, k) ==
    IF k = 0 THEN 0
    ELSE A.e[<<r, k>>] * B.e[<<k, c>>] + DotSum(A, B, r, c, k - 1)

\* A * B of two sparse matrices: the matrix product
MatMul(A, B) ==
    [rows |-> A.rows, cols |-> B.cols,
     e |-> [x \in (1..A.rows) \X (1..B.cols) |-> DotSum(A, B, x[1], x[2], A.cols)]]

\* A + B
MatAdd(A, B) ==
    [rows |-> A.rows, cols |-> A.cols,
     e |-> [x \in (1..A.rows) \X (1..A.cols) |-> A.e[x] + B.e[x]]]

K_J_zero_first(n, k) == vstack(sparse(k, n), eye(n))

\* K_J = vstack([eye(n), csr_matrix((k, n))])
K_J(n, k) == vstack(eye(n), sparse(k, n))

\* K_J * J * K_J.T (create_jacobian.py 100-101, newtonpf.py 259-261)
PadJ(Jm, k) ==
    MatMul(MatMul(K_J(Jm.rows, k), Jm), Transpose(K_J(Jm.rows, k)))

\* _create_J_modification_trafo_taps
create_J_modification_trafo_taps(len_J, len_control) ==
    sparse(len_J + len_control, len_J + len_control)

\* create_jacobian_matrix lines 96-103, applied to the matrix Jm of the builder
TrafoTapsJ(Jm, trafo_taps, len_x_control) ==
    IF trafo_taps
    THEN MatAdd(PadJ(Jm, len_x_control),
                create_J_modification_trafo_taps(Jm.rows, len_x_control))
    ELSE Jm

get_fastest_jacobian_function_pv(pvpq, q, numba, dist_slack) ==
    IF numba
    THEN IF dist_slack THEN "create_J_ds"
         ELSE IF Len(pvpq) - Len(q) = Len(q) THEN "create_J2"
         ELSE "create_J"
    ELSE "None"

\* get_fastest_jacobian_function: the kernel chosen, by name
get_fastest_jacobian_function(pvpq, q, numba, dist_slack) ==
    IF numba
    THEN IF dist_slack THEN "create_J_ds"
         ELSE IF Len(pvpq) = Len(q) THEN "create_J2"
         ELSE "create_J"
    ELSE "None"

(***************************************************************************)
(* newtonpf: the loop body after the Jacobian call, as functions of the    *)
(* options and array lengths                                               *)
(***************************************************************************)
\* lines 249-273: the matrix handed to spsolve when tdpf is off: the matrix of
\* create_jacobian_matrix, extended by num_facts_controllable rows and columns
\* (the SVC and TCSC modifications are added to it and keep its shape)
SolveMatrix(a, numba, dist_slack, case) ==
    LET Jb == create_jacobian_matrix(a, numba, dist_slack, FALSE, 0)
    IN IF num_facts_controllable(case) > 0
       THEN ExtendJ(Jb, num_facts_controllable(case))
       ELSE Jb

\* lines 277-281: how often the plain Newton update writes a voltage
\* sub-block of n buses
PlainUpdates(iwamoto, n) == IF n > 0 /\ ~iwamoto THEN 1 ELSE 0

\* lines 290-291: how often _iwamoto_step writes the voltage sub-blocks
IwamotoUpdates(iwamoto, tdpf) == IF iwamoto /\ ~tdpf THEN 1 ELSE 0

(***************************************************************************)
(* newtonpf: the driver                                                    *)
(***************************************************************************)
Init ==
    /\ pc = "initializing"
    /\ options \in OptionSets
    /\ args \in Classifications
    /\ ppci \in Cases
    /\ ~options.tdpf => ppci.tdpf_lines = <<>>
    /\ i = 0
    /\ ref = args.ref /\ pv = args.pv /\ pq = args.pq
    /\ j = Offsets(FALSE, [ref |-> <<>>, pv |-> <<>>, pq |-> <<>>],
                   [svc_buses |-> <<>>, tcsc_controllable |-> <<>>])
    /\ F = <<>>
    /\ Yused = "none"
    /\ converged = FALSE
    /\ J = NoJ
    /\ V = 0
    /\ Vm_it = <<>>
    /\ q_svc = "unbound"
    /\ written = {}
    /\ err = "none"
    /\ jcall = NoCall

\* lines 56-234: options, indexing, offsets, F(x0), thermal block, convergence
Initialize ==
    /\ pc = "initializing"
    /\ LET a == Reclassify(options.distributed_slack, args)
           refpvpq == a.ref \o a.pv \o a.pq
           fx == evaluate_Fx(options.distributed_slack, a, ppci)
           blocks == fx.blocks \o ThermalBlock(options.tdpf, ppci)
       IN /\ ref' = a.ref /\ pv' = a.pv /\ pq' = a.pq
          /\ Vm_it' = IF options.v_debug THEN <<V>> ELSE <<>>
          /\ IF Len(refpvpq) = 0
             THEN \* line 112: max of an empty array
                  /\ pc' = "raised" /\ err' = "ValueError"
                  /\ UNCHANGED <<j, F, Yused, converged>>
             ELSE /\ j' = Offsets(options.distributed_slack, a, ppci)
                  /\ Yused' = fx.Y
                  /\ \/ F' = Mismatch(blocks, 0, 0)
                     \/ \E hot \in HotPositions(Len(fx.blocks)), v \in FVals :
                            F' = Mismatch(blocks, hot, v)
                  /\ IF Len(blocks) = 0
                     THEN \* line 373: the norm of an empty array
                          /\ pc' = "raised" /\ err' = "ValueError"
                          /\ UNCHANGED converged
                     ELSE /\ converged' = check_for_convergence(F', options.tolerance_mva)
                          /\ pc' = "loop_test" /\ err' = err
    /\ UNCHANGED <<options, args, ppci, i, J, V, q_svc, written, jcall>>

\* lines 238-246: the loop condition and the iteration counter
LoopTest ==
    /\ pc = "loop_test"
    /\ IF ~converged /\ i < options.max_iteration
       THEN i' = i + 1 /\ pc' = "create_jacobian"
       ELSE i' = i /\ pc' = "write_svc"
    /\ UNCHANGED <<options, args, ppci, ref, pv, pq, j, F, Yused, converged, J, V,
                   Vm_it, q_svc, written, err, jcall>>

\* line 249: the call of create_jacobian_matrix binds the arguments passed to
\* the parameters declared; Python raises TypeError when a parameter without
\* a default is left unbound
CallCreateJacobianMatrix ==
    /\ pc = "create_jacobian"
    /\ IF NewtonpfCallArgs # CreateJacobianMatrixParams
       THEN pc' = "raised" /\ err' = "TypeError" /\ J' = J
       ELSE /\ pc' = "extend_jacobian" /\ err' = err
            /\ \E numba \in BOOLEAN :
                  J' = create_jacobian_matrix([ref |-> ref, pv |-> pv, pq |-> pq],
                                             numba, options.distributed_slack,
                                             FALSE, 0)
    /\ UNCHANGED <<options, args, ppci, i, ref, pv, pq, j, F, Yused, converged, V,
                   Vm_it, q_svc, written, jcall>>

\* lines 325-327: q_svc is assigned only inside the loop (line 303)
WriteBackSvc ==
    /\ pc = "write_svc"
    /\ IF Len(ppci.svc_buses) > 0
       THEN IF q_svc = "unbound"
            THEN pc' = "raised" /\ err' = "UnboundLocalError" /\ written' = written
            ELSE pc' = "write_tcsc" /\ err' = err /\ written' = written \cup {"svc"}
       ELSE pc' = "write_tcsc" /\ err' = err /\ written' = written
    /\ UNCHANGED <<options, args, ppci, i, ref, pv, pq, j, F, Yused, converged, J, V,
                   Vm_it, q_svc, jcall>>

\* lines 329-341
WriteBackTcsc ==
    /\ pc = "write_tcsc"
    /\ written' = IF Len(ppci.tcsc_controllable) > 0
                  THEN written \cup {"tcsc"} ELSE written
    /\ pc' = "return"
    /\ UNCHANGED <<options, args, ppci, i, ref, pv, pq, j, F, Yused, converged, J, V,
                   Vm_it, q_svc, err, jcall>>

\* line 343
Return ==
    /\ pc = "return"
    /\ pc' = "returned"
    /\ UNCHANGED <<options, args, ppci, i, ref, pv, pq, j, F, Yused, converged, J, V,
                   Vm_it, q_svc, written, err, jcall>>

Next ==
    \/ Initialize
    \/ LoopTest
    \/ CallCreateJacobianMatrix
    \/ WriteBackSvc
    \/ WriteBackTcsc
    \/ Return

Spec == Init /\ [][Next]_vars

(***************************************************************************)
(* Direct calls of the Jacobian builders                                   *)
(***************************************************************************)
InitJ ==
    /\ pc = "direct_call"
    /\ options = [tolerance_mva |-> 1, max_iteration |-> 0, algorithm |-> "nr",
                  distributed_slack |-> FALSE, v_debug |-> FALSE, tdpf |-> FALSE]
    /\ args \in ValidClassifications
    /\ ppci = [svc_buses |-> <<>>, tcsc_controllable |-> <<>>,
               nbranch |-> NBranch, tdpf_lines |-> <<>>]
    /\ i = 0
    /\ ref = args.ref /\ pv = args.pv /\ pq = args.pq
    /\ j = Offsets(FALSE, [ref |-> <<>>, pv |-> <<>>, pq |-> <<>>],
                   [svc_buses |-> <<>>, tcsc_controllable |-> <<>>])
    /\ F = <<>>
    /\ Yused = "none"
    /\ converged = FALSE
    /\ J = NoJ
    /\ V = 0
    /\ Vm_it = <<>>
    /\ q_svc = "unbound"
    /\ written = {}
    /\ err = "none"
    /\ jcall \in [dist_slack : BOOLEAN, numba : BOOLEAN, trafo_taps : BOOLEAN,
                  x_control : 0..MaxControl,
                  generic : {NoJ}, accelerated : {NoJ}, matrix : {NoJ},
                  createJ : {"unset"}]

DriverVars == <<pc, options, args, ppci, i, ref, pv, pq, j, F, Yused, converged, J, V,
                Vm_it, q_svc, written, err>>

CallCreateJWithoutNumba ==
    /\ pc = "direct_call"
    /\ jcall.generic = NoJ
    /\ jcall' = [jcall EXCEPT !.generic =
                    create_J_without_numba(ref, pv \o pq, pq, jcall.dist_slack)]
    /\ UNCHANGED DriverVars

CallCreateJWithNumba ==
    /\ pc = "direct_call"
    /\ jcall.accelerated = NoJ
    /\ jcall' = [jcall EXCEPT !.accelerated =
                    create_J_with_numba(ref \o pv \o pq, pv \o pq, pq,
                                        Len(ref), Len(pv), Len(pq), jcall.dist_slack)]
    /\ UNCHANGED DriverVars

DirectCreateJacobianMatrix ==
    /\ pc = "direct_call"
    /\ jcall.matrix = NoJ
    /\ jcall' = [jcall EXCEPT !.matrix =
                    create_jacobian_matrix([ref |-> ref, pv |-> pv, pq |-> pq],
                                           jcall.numba, jcall.dist_slack,
                                           jcall.trafo_taps, jcall.x_control)]
    /\ UNCHANGED DriverVars

\* newtonpf.py line 116: the kernel is chosen from pvpq = r_[pv, pq] and pq
CallGetFastestJacobianFunction ==
    /\ pc = "direct_call"
    /\ jcall.createJ = "unset"
    /\ jcall' = [jcall EXCEPT !.createJ =
                    get_fastest_jacobian_function(pv \o pq, pq, jcall.numba,
                                                  jcall.dist_slack)]
    /\ UNCHANGED DriverVars

NextJ ==
    \/ CallGetFastestJacobianFunction
    \/ CallCreateJWithoutNumba
    \/ CallCreateJWithNumba
    \/ DirectCreateJacobianMatrix

SpecJ == InitJ /\ [][NextJ]_vars

(***************************************************************************)
(* The padding steps applied to a Jacobian given entry by entry            *)
(***************************************************************************)
InitPad ==
    /\ pc = "pad_call"
    /\ options = [tolerance_mva |-> 1, max_iteration |-> 0, algorithm |-> "nr",
                  distributed_slack |-> FALSE, v_debug |-> FALSE, tdpf |-> FALSE]
    /\ args = [ref |-> <<>>, pv |-> <<>>, pq |-> <<>>]
    /\ ppci = [svc_buses |-> <<>>, tcsc_controllable |-> <<>>,
               nbranch |-> NBranch, tdpf_lines |-> <<>>]
    /\ i = 0
    /\ ref = args.ref /\ pv = args.pv /\ pq = args.pq
    /\ j = Offsets(FALSE, [ref |-> <<>>, pv |-> <<>>, pq |-> <<>>],
                   [svc_buses |-> <<>>, tcsc_controllable |-> <<>>])
    /\ F = <<>>
    /\ Yused = "none"
    /\ converged = FALSE
    /\ J = NoJ
    /\ V = 0
    /\ Vm_it = <<>>
    /\ q_svc = "unbound"
    /\ written = {}
    /\ err = "none"
    /\ jcall \in [base : Matrices, k : 0..MaxControl, facts : {NoJ}, taps : {NoJ}]

\* newtonpf.py lines 258-261, with num_facts_controllable = k
ExtendForFacts ==
    /\ pc = "pad_call"
    /\ jcall.facts = NoJ
    /\ jcall.k > 0
    /\ jcall' = [jcall EXCEPT !.facts = PadJ(jcall.base, jcall.k)]
    /\ UNCHANGED DriverVars

\* create_jacobian_matrix lines 96-103 with trafo_taps on and len(x_control) = k
ExtendForTrafoTaps ==
    /\ pc = "pad_call"
    /\ jcall.taps = NoJ
    /\ jcall' = [jcall EXCEPT !.taps = TrafoTapsJ(jcall.base, TRUE, jcall.k)]
    /\ UNCHANGED DriverVars

NextPad ==
    \/ ExtendForFacts
    \/ ExtendForTrafoTaps

SpecPad == InitPad /\ [][NextPad]_vars

(***************************************************************************)
(* Properties                                                              *)
(***************************************************************************)
Terminal == {"returned", "raised"}

iwamoto == options.algorithm = "iwamoto_nr"

\* F has been evaluated and the convergence predicate applied to it
Evaluated == Len(F) > 0 /\ Yused # "none"

\* C1: whenever newtonpf has returned, the convergence flag is true exactly
\* when every entry of the most recently evaluated F (the thermal block
\* included when tdpf is on) is in absolute value strictly below the
\* tolerance; a largest entry equal to the tolerance is not converged.
C1_ConvergedIffNormBelowTol ==
    pc = "returned" =>
        (converged <=> \A k \in 1..Len(F) : Abs(F[k].val) < options.tolerance_mva)

\* C1 witness: a returned call on a well-formed partition, tdpf on, whose
\* largest mismatch equals the tolerance and which is reported as not converged
C1_ReturnedAtTolerance ==
    /\ pc = "returned"
    /\ WellFormed(args)
    /\ options.tdpf
    /\ CountBlk(F, "T") > 0
    /\ \E k \in 1..Len(F) : Abs(F[k].val) = options.tolerance_mva
    /\ \A k \in 1..Len(F) : Abs(F[k].val) <= options.tolerance_mva
    /\ ~converged

\* C2: the iteration counter never exceeds max_iteration, and a run whose
\* mismatch never satisfies the convergence predicate ends by returning
\* normally, not by raising, with converged false and max_iteration
\* iterations counted (stated for well-formed partitions and networks
\* without SVC buses).
C2_CapReachedReturnsNormally ==
    /\ i <= options.max_iteration
    /\ (pc \in Terminal /\ WellFormed(args) /\ Evaluated /\ ~converged
            /\ Len(ppci.svc_buses) = 0)
        => (pc = "returned" /\ i = options.max_iteration)

\* C3: a run whose initial mismatch satisfies the convergence predicate never
\* builds a Jacobian and ends by returning normally with converged true,
\* zero iterations and the voltage of the initial guess, whatever devices
\* the network contains.
C3_ConvergedAtStartReturns ==
    (WellFormed(args) /\ Evaluated /\ converged) =>
        /\ pc # "create_jacobian"
        /\ i = 0 /\ V = 0 /\ J = NoJ
        /\ pc \in Terminal => pc = "returned"

\* C4: a malformed bus partition (overlapping sets, or an empty reference
\* set) is reported by an error raised during initialization; the run never
\* gets past initialization.
C4_MalformedRejectedAtInit ==
    ~WellFormed(args) =>
        \/ pc = "initializing"
        \/ pc = "raised" /\ err = "ValueError" /\ i = 0

\* C5: in every iteration without thermal augmentation, on a well-formed
\* partition, the matrix handed to the linear solve is square with as many
\* rows as the state vector is long (j6b), and the mismatch vector F has
\* that length too.
C5_LinearSystemSquare ==
    (pc = "create_jacobian" /\ ~options.tdpf /\ WellFormed(args)) =>
        \A numba \in BOOLEAN :
            LET Js == SolveMatrix([ref |-> ref, pv |-> pv, pq |-> pq], numba,
                                  options.distributed_slack, ppci)
            IN /\ Js.rows = j.j6b
               /\ Js.cols = j.j6b
               /\ Len(F) = j.j6b

\* C6: a run with the debug trace enabled that is cut off by its iteration
\* cap k before converging returns converged false, and its voltage trace
\* has k + 1 columns, the initial guess and the first k iterates, which are
\* the first k + 1 columns of the trace of any run with a larger cap (stated
\* for networks without SVC buses).
C6_TruncatedRunReturnsTrace ==
    (pc \in Terminal /\ WellFormed(args) /\ Evaluated /\ ~converged
        /\ options.v_debug /\ Len(ppci.svc_buses) = 0)
        => /\ pc = "returned"
           /\ Vm_it = Range(0, options.max_iteration)

C8_TcscAdmittanceInEveryMismatch ==
    (WellFormed(args) /\ Evaluated /\ Len(ppci.tcsc_controllable) > 0) =>
        /\ Yused = "Ybus+Ybus_tcsc"
        /\ CountBlk(F, "tcsc") = num_tcsc_controllable(ppci)

\* C9: with SVC buses and controllable TCSC both present (distributed slack
\* off), the device residuals of F stand at the positions of the device
\* state slots and in their order: the entry of F at slot s in j6:j6a is an
\* SVC residual and the entry at slot s in j6a:j6b is a TCSC residual.
C9_DeviceResidualsFollowStateOrder ==
    (WellFormed(args) /\ Evaluated /\ ~options.distributed_slack
        /\ num_svc_controllable(ppci) > 0 /\ num_tcsc_controllable(ppci) > 0)
        => \A s \in (j.j6 + 1)..j.j6b :
              /\ s <= Len(F)
              /\ F[s].blk = StateSlot(j, s)

\* C10: in every iteration every non-empty voltage sub-block (angles at PV
\* buses, angles and magnitudes at PQ buses) is written exactly once, by the
\* plain Newton update or by the Iwamoto step, for every combination of
\* options, tdpf with iwamoto_nr included.
C10_VoltageBlocksUpdatedOnce ==
    (pc = "create_jacobian" /\ WellFormed(args)) =>
        \A n \in {Len(pv), Len(pq)} :
            n > 0 => PlainUpdates(iwamoto, n)
                     + IwamotoUpdates(iwamoto, options.tdpf) = 1

\* C11: with tdpf on, the thermal block of F has one entry per branch flagged
\* TDPF, as many as temperature slots are read from the step vector after
\* j7; a branch that is not flagged contributes no entry (stated for
\* networks with at least one flagged branch).
C11_ThermalEntriesPerThermalLine ==
    (WellFormed(args) /\ Evaluated /\ options.tdpf /\ Len(ppci.tdpf_lines) >= 1) =>
        /\ Cardinality(TemperatureSlots(ppci)) = Len(ppci.tdpf_lines)
        /\ CountBlk(F, "T") = Len(ppci.tdpf_lines)

\* C12: get_fastest_jacobian_function returns no kernel when numba is off;
\* when it is on it returns create_J_ds under distributed slack, and
\* otherwise create_J2 when the index array pvpq is as long as pq, that is
\* when there is no PV bus, and create_J when it is longer.
C12_KernelByPvpqLength ==
    (pc = "direct_call" /\ jcall.createJ # "unset") =>
        jcall.createJ = IF ~jcall.numba THEN "None"
                        ELSE IF jcall.dist_slack THEN "create_J_ds"
                        ELSE IF Len(pv) = 0 THEN "create_J2"
                        ELSE "create_J"

\* C12 witness: numba on, distributed slack off, as many PV as PQ buses, and
\* the kernel chosen is create_J
C12_EqualSetSizesChooseCreateJ ==
    /\ pc = "direct_call"
    /\ jcall.numba /\ ~jcall.dist_slack
    /\ Len(pv) = Len(pq) /\ Len(pv) > 0
    /\ jcall.createJ = "create_J"

\* C12 as stated: without distributed slack the choice follows whether the
\* PV set and the PQ set have equal sizes, create_J2 when equal and create_J
\* when not.
C12_KernelByPvAndPqSize ==
    (pc = "direct_call" /\ jcall.createJ # "unset") =>
        jcall.createJ = IF ~jcall.numba THEN "None"
                        ELSE IF jcall.dist_slack THEN "create_J_ds"
                        ELSE IF Len(pv) = Len(pq) THEN "create_J2"
                        ELSE "create_J"

\* C13: extending an n-by-n Jacobian by k control slots, for FACTS or for
\* transformer taps, gives an (n+k)-by-(n+k) matrix that has the entries of
\* J at the same indices in its top-left n-by-n block and zero everywhere in
\* the added k rows and k columns; the transformer-tap result equals the
\* FACTS padding of the same matrix.
C13_PaddingKeepsBlockAddsZeros ==
    pc = "pad_call" =>
        /\ \A R \in {jcall.facts, jcall.taps} \ {NoJ} :
              LET n == jcall.base.rows IN
              /\ R.rows = n + jcall.k /\ R.cols = n + jcall.k
              /\ R.rows = ExtendJ([rows |-> n, cols |-> n], jcall.k).rows
              /\ \A x \in (1..(n + jcall.k)) \X (1..(n + jcall.k)) :
                    R.e[x] = IF x[1] <= n /\ x[2] <= n THEN jcall.base.e[x] ELSE 0
        /\ (jcall.facts # NoJ /\ jcall.taps # NoJ) => jcall.facts = jcall.taps

\* C13 witness: a 2-by-2 Jacobian that is not symmetric and has no zero entry
\* has been extended by two slots, both for FACTS and for transformer taps
C13_FullMatrixExtendedByTwo ==
    /\ pc = "pad_call"
    /\ jcall.base.rows = 2 /\ jcall.k = 2
    /\ \A x \in (1..2) \X (1..2) : jcall.base.e[x] # 0
    /\ jcall.base.e[<<1, 2>>] # jcall.base.e[<<2, 1>>]
    /\ jcall.facts # NoJ /\ jcall.taps # NoJ
    /\ jcall.taps.rows = 4

====
